---- MODULE Spec2Model ----
(***************************************************************************)
(* The containerized kernel service (container_service/kernel_service.py)  *)
(* and the relay client's message translation (code_sandbox_mcp/server.py) *)
(*                                                                         *)
(* The service runs on one asyncio event loop: a step of the model is what *)
(* one task executes between two suspension points (an await that really   *)
(* suspends).  The suspension points of the service are                    *)
(*   "kernel_lock"     async with lock                (line 103, contended)*)
(*   "start"           await kernel.start()           (lines 41-44)        *)
(*   "execution_lock"  async with self._execution_lock (line 63, contended)*)
(*   "get_iopub_msg"   await self.kc.get_iopub_msg()  (line 69)            *)
(*   "shutdown"        await self.km.shutdown_kernel() (line 88)           *)
(* An uncontended asyncio.Lock is acquired without suspending.             *)
(***************************************************************************)
EXTENDS Integers, Sequences, FiniteSets, TLC

VARIABLES
    kernels,        \* KernelManager.kernels: dict in insertion order, <<[id, kernel]>>
    kernel_locks,   \* KernelManager._kernel_locks: id -> lock object (NoLock: absent)
    pool_lock,      \* KernelManager._lock: the task holding it (NoTask: free)
    locks,          \* the asyncio.Lock objects stored in _kernel_locks
    jk,             \* the JupyterKernel objects ever constructed
    task,           \* the request handlers (one asyncio task per HTTP request)
    relay,          \* the relay's call of the service (server.py)
    env             \* the relay's management of the environment (server.py)

vars == <<kernels, kernel_locks, pool_lock, locks, jk, task, relay, env>>

\* ------------------------------------------------------------- bounds
NumTasks == 3       \* requests served in one run
MaxOut == 1         \* output events one execution publishes between busy and idle
MaxFaults == 1      \* cancellations and raised awaits injected in one run
MaxMsgs == 2        \* raw messages in one response of the service
MaxMimes == 2       \* representations in one mime bundle
MaxLines == 2       \* lines of one traceback
MaxTimeout == 3     \* the timeout argument of a direct health_check call
MaxCalls == 2       \* calls of the client's execute_code after setup

Tasks == 1..NumTasks
Ids == {"a", "b"}
Languages == {"python", "bash", "ruby"}
NoTask == 0
NoKernel == 0
NoLock == 0

\* ------------------------------------------------------- asyncio.Lock
\* A lock is [holder, waiters].  release() wakes the first waiter and no later
\* acquire() can overtake it (acquire queues whenever a live waiter exists), so
\* release hands the lock to the head of the queue; the woken task continues
\* at its next step.
FreeLock == [holder |-> NoTask, waiters |-> <<>>]

Acquire(l, t) ==
    IF l.holder = NoTask /\ l.waiters = <<>>
    THEN [l EXCEPT !.holder = t]
    ELSE [l EXCEPT !.waiters = Append(@, t)]

\* Mutant of Release: the lock goes to the waiter that arrived last.
ReleaseToLast(l) ==
    IF l.waiters = <<>>
    THEN [l EXCEPT !.holder = NoTask]
    ELSE [holder |-> l.waiters[Len(l.waiters)],
          waiters |-> SubSeq(l.waiters, 1, Len(l.waiters) - 1)]

Release(l) ==
    IF l.waiters = <<>>
    THEN [l EXCEPT !.holder = NoTask]
    ELSE [holder |-> Head(l.waiters), waiters |-> Tail(l.waiters)]

\* acquire() cancelled while waiting: leave the queue, or pass a lock that
\* was already handed over on to the next waiter.
Withdraw(l, t) ==
    IF l.holder = t
    THEN Release(l)
    ELSE [l EXCEPT !.waiters = SelectSeq(@, LAMBDA w : w # t)]

\* ------------------------------------------------------ the kernels dict
InKernels(d, id) == \E i \in 1..Len(d) : d[i].id = id

KernelOf(d, id) == (CHOOSE i \in 1..Len(d) : d[i].id = id)

DictGet(d, id) == d[KernelOf(d, id)].kernel

DictSet(d, id, k) ==
    IF InKernels(d, id)
    THEN [d EXCEPT ![KernelOf(d, id)].kernel = k]
    ELSE Append(d, [id |-> id, kernel |-> k])

DictDel(d, id) == SelectSeq(d, LAMBDA e : e.id # id)

DictKeys(d) == [i \in 1..Len(d) |-> d[i].id]

\* ------------------------------------------------------- the objects
\* A JupyterKernel object.  state: "new" (constructed, start not finished),
\* "started", "failed" (start raised), "closing" (stop_channels done,
\* km.shutdown_kernel running), "dead".  shell and iopub are the two channels
\* of the interpreter.  The fields after iopub record history and are never
\* read by the program: published counts the events ever put on iopub,
\* arrived the calls that reached the execution mutex, sent the calls whose
\* code was passed to kc.execute, last_sent the arrival number of the latest
\* of them, preloads the preloads among them, last_exit how the latest
\* execute_raw left, unfinished whether some execute_raw left before its idle
\* event, abandoned whether get_kernel was left before storing the kernel,
\* shutdown_calls the number of calls of shutdown(), at_shutdown_all whether
\* the kernel was tracked or being created when shutdown_all was called.
NewKernel(id) ==
    [state |-> "new", id |-> id, execution_lock |-> FreeLock,
     shell |-> <<>>, iopub |-> <<>>,
     published |-> 0, arrived |-> 0, sent |-> 0, last_sent |-> 0, preloads |-> 0,
     last_exit |-> "", unfinished |-> FALSE, abandoned |-> FALSE,
     shutdown_calls |-> 0, at_shutdown_all |-> FALSE]

NoResponse == [status |-> 0, success |-> FALSE, messages |-> <<>>, error |-> ""]

\* A request handler.  kernel, lock, messages and todo are its local
\* variables; phase tells whether its execute_raw runs the preload ("import")
\* or the request's code ("code").  The fields after resp record history:
\* the faults injected into the task (cancellations and awaits that raised),
\* the cancellations among them, the call's arrival number at the execution
\* mutex, whether it waited there, whether its code was sent, and how the
\* previous holder had left when it was.
IdleTask ==
    [pc |-> "idle", kind |-> "", kernel_id |-> "",
     kernel |-> NoKernel, lock |-> NoLock, phase |-> "", messages |-> <<>>,
     todo |-> <<>>, resp |-> NoResponse,
     faults |-> 0, cancels |-> 0, ticket |-> 0, queued |-> FALSE, sent |-> FALSE, after |-> ""]

\* The program state as one record, so that the code between two suspension
\* points composes as a function from state to state.
State ==
    [kernels |-> kernels, kernel_locks |-> kernel_locks, pool_lock |-> pool_lock,
     locks |-> locks, jk |-> jk, task |-> task]

SetState(s) ==
    /\ kernels' = s.kernels
    /\ kernel_locks' = s.kernel_locks
    /\ pool_lock' = s.pool_lock
    /\ locks' = s.locks
    /\ jk' = s.jk
    /\ task' = s.task
    /\ UNCHANGED <<relay, env>>

\* ------------------------------------------------------- the responses
Traceback(e) == "Traceback (most recent call last): " \o e

ExecuteOk(msgs) ==
    [status |-> 200, success |-> TRUE, messages |-> msgs, error |-> ""]

ExecuteFailed(e) ==
    [status |-> 200, success |-> FALSE, messages |-> <<>>, error |-> Traceback(e)]

KernelShutdown ==
    [status |-> 200, success |-> TRUE, messages |-> <<>>, error |-> ""]

InternalServerError(e) ==
    [status |-> 500, success |-> FALSE, messages |-> <<>>, error |-> e]

\* The handler returns: its local variables are gone.
Return(s, t, pc) ==
    [s EXCEPT !.task[t].pc = pc, !.task[t].lock = NoLock,
              !.task[t].messages = <<>>, !.task[t].todo = <<>>]

StartError == "RuntimeError: kernel did not start"
ChannelError == "RuntimeError: channel is broken"

Respond(s, t, r) == [Return(s, t, "done") EXCEPT !.task[t].resp = r]

\* An exception e leaves the handler of task t: execute_code answers with a
\* failure response (except Exception), the DELETE endpoint and the shutdown
\* event let it through.
Raise(s, t, e) ==
    IF s.task[t].kind = "execute"
    THEN Respond(s, t, ExecuteFailed(e))
    ELSE Respond(s, t, InternalServerError(e))

\* asyncio.CancelledError leaves the handler: it is no Exception, so the
\* task ends cancelled and answers nothing.
Cancelled(s, t) == Return(s, t, "cancelled")

\* ------------------------------------------------------- the interpreter
MsgId(s, t) == <<t, s.task[t].phase>>

Event(n, m, type, state) ==
    [n |-> n, parent |-> m, msg_type |-> type, execution_state |-> state]

\* What the interpreter publishes for request m when it produces outs
\* outputs: status busy, the outputs, status idle.  base is the number of
\* events published before.
Publish(base, m, outs) ==
    <<Event(base + 1, m, "status", "busy")>>
    \o [i \in 1..outs |-> Event(base + 1 + i, m, "stream", "")]
    \o <<Event(base + outs + 2, m, "status", "idle")>>

\* Mutant of IsIdle: the read loop ends at any status message.
IsIdle_any_status(reply) == reply.msg_type = "status"

IsIdle(reply) == reply.msg_type = "status" /\ reply.execution_state = "idle"

\* ------------------------------------------- JupyterKernel.execute_raw
\* The exit of "async with self._execution_lock" (line 63), on whichever
\* path execute_raw is left: how is "idle", "cancelled" or "raised".
\* Mutant of leave_execute_raw: a cancelled call keeps the mutex (acquire
\* and release written out by hand, the release skipped by the exception).
leave_execute_raw_cancel_keeps(s, t, how) ==
    LET k == s.task[t].kernel
    IN  [s EXCEPT !.jk[k].execution_lock = IF how = "cancelled" THEN @ ELSE Release(@),
                  !.jk[k].last_exit = how,
                  !.jk[k].unfinished = @ \/ (how # "idle")]

leave_execute_raw(s, t, how) ==
    LET k == s.task[t].kernel
    IN  [s EXCEPT !.jk[k].execution_lock = Release(@),
                  !.jk[k].last_exit = how,
                  !.jk[k].unfinished = @ \/ (how # "idle")]

\* Mutant of leave_get_kernel: the exception leaves with the lock still held.
leave_get_kernel_keeps_lock(s, t) ==
    [s EXCEPT !.jk[s.task[t].kernel].abandoned = TRUE]

\* How get_kernel's "async with lock" (line 103) is left when an exception
\* or a cancellation passes through it.
leave_get_kernel(s, t) ==
    [s EXCEPT !.locks[s.task[t].lock] = Release(@),
              !.jk[s.task[t].kernel].abandoned = TRUE]

\* An exception leaves execute_raw (only CancelledError is caught, line 80):
\* the mutex is released; during the preload the exception also leaves
\* get_kernel; then it reaches the endpoint.
\* Mutant of execute_raw_raises: a broken channel also drops the session
\* from the pool.
execute_raw_raises_drops(s, t, e) ==
    LET s1 == leave_execute_raw(s, t, "raised")
        s2 == IF s.task[t].phase = "import" THEN leave_get_kernel(s1, t) ELSE s1
    IN  Raise([s2 EXCEPT !.kernels = DictDel(@, s.task[t].kernel_id)], t, e)

execute_raw_raises(s, t, e) ==
    LET s1 == leave_execute_raw(s, t, "raised")
        s2 == IF s.task[t].phase = "import" THEN leave_get_kernel(s1, t) ELSE s1
    IN  Raise(s2, t, e)

\* Lines 64-69 with the execution mutex held: kc.execute(code), then the
\* first read of the iopub channel suspends.  On a client whose channels
\* were stopped the send raises, which leaves the async with block.
kc_execute(s, t) ==
    LET k == s.task[t].kernel
        m == MsgId(s, t)
    IN  IF s.jk[k].state = "started"
        THEN [s EXCEPT !.jk[k].shell = Append(@, m),
                       !.jk[k].sent = @ + 1,
                       !.jk[k].last_sent = s.task[t].ticket,
                       !.jk[k].preloads = @ + (IF s.task[t].phase = "import" THEN 1 ELSE 0),
                       !.task[t].sent = TRUE,
                       !.task[t].after = s.jk[k].last_exit,
                       !.task[t].pc = "get_iopub_msg"]
        ELSE execute_raw_raises(s, t, "channels are closed")

\* Mutant of execute_raw: the code is sent without taking the mutex.
execute_raw_without_mutex(s, t) ==
    LET k == s.task[t].kernel
    IN  kc_execute([s EXCEPT !.jk[k].arrived = @ + 1,
                             !.task[t].ticket = s.jk[k].arrived + 1,
                             !.task[t].queued = FALSE,
                             !.task[t].sent = FALSE], t)

\* Line 63: the call takes the session's execution mutex or queues for it.
execute_raw(s, t) ==
    LET k  == s.task[t].kernel
        s1 == [s EXCEPT !.jk[k].execution_lock = Acquire(@, t),
                        !.jk[k].arrived = @ + 1,
                        !.task[t].ticket = s.jk[k].arrived + 1,
                        !.task[t].queued = FALSE,
                        !.task[t].sent = FALSE]
    IN  IF s1.jk[k].execution_lock.holder = t
        THEN kc_execute(s1, t)
        ELSE [s1 EXCEPT !.task[t].pc = "execution_lock",
                        !.task[t].queued = TRUE]

\* execute_python_code (lines 154-156) and execute_shell_code (lines
\* 167-180) after get_kernel has returned: both collect the raw messages
\* of one execute_raw; the shell magic only changes the code text.
run_code(s, t) ==
    execute_raw([s EXCEPT !.task[t].phase = "code",
                          !.task[t].messages = <<>>], t)

\* ------------------------------------------------ KernelManager.get_kernel
\* Line 110 and the exit of "async with lock": the caller receives
\* self.kernels[kernel_id] and goes on to execute.
get_kernel_return(s, t) ==
    LET k  == DictGet(s.kernels, s.task[t].kernel_id)
        s1 == [s EXCEPT !.task[t].kernel = k,
                        !.locks[s.task[t].lock] = Release(@)]
    IN  run_code(s1, t)

\* Lines 104-110 with the per-identifier lock held.
get_kernel_locked(s, t) ==
    LET id == s.task[t].kernel_id
    IN  IF ~InKernels(s.kernels, id)
        THEN [s EXCEPT !.jk = Append(@, NewKernel(id)),
                       !.task[t].kernel = Len(s.jk) + 1,
                       !.task[t].pc = "start"]
        ELSE get_kernel_return(s, t)

\* Mutant of get_kernel: no per-identifier lock around create-or-fetch.
get_kernel_without_lock(s, t) ==
    LET id   == s.task[t].kernel_id
        s2   == IF s.kernel_locks[id] = NoLock
                THEN [s EXCEPT !.locks = Append(@, FreeLock),
                               !.kernel_locks[id] = Len(s.locks) + 1]
                ELSE s
    IN  get_kernel_locked([s2 EXCEPT !.task[t].lock = s2.kernel_locks[id]], t)

\* Mutant of get_kernel: one lock serves every identifier.
get_kernel_one_lock(s, t) ==
    LET s2   == IF s.locks = <<>> THEN [s EXCEPT !.locks = <<FreeLock>>] ELSE s
        s3   == [s2 EXCEPT !.kernel_locks[s.task[t].kernel_id] = 1,
                           !.task[t].lock = 1]
        s4   == [s3 EXCEPT !.locks[1] = Acquire(@, t)]
    IN  IF s4.locks[1].holder = t
        THEN get_kernel_locked(s4, t)
        ELSE [s4 EXCEPT !.task[t].pc = "kernel_lock"]

\* Lines 98-103: insert-if-absent on the lock map under the pool-wide lock,
\* then the per-identifier lock.
get_kernel(s, t) ==
    LET id   == s.task[t].kernel_id
        s1   == [s EXCEPT !.pool_lock = t]
        s2   == IF s1.kernel_locks[id] = NoLock
                THEN [s1 EXCEPT !.locks = Append(@, FreeLock),
                                !.kernel_locks[id] = Len(s1.locks) + 1]
                ELSE s1
        lock == s2.kernel_locks[id]
        s3   == [s2 EXCEPT !.task[t].lock = lock, !.pool_lock = NoTask]
        s4   == [s3 EXCEPT !.locks[lock] = Acquire(@, t)]
    IN  IF s4.locks[lock].holder = t
        THEN get_kernel_locked(s4, t)
        ELSE [s4 EXCEPT !.task[t].pc = "kernel_lock"]

\* Lines 46-57: the preload is an ordinary execute_raw on the new kernel.
import_libraries(s, t) ==
    execute_raw([s EXCEPT !.task[t].phase = "import",
                          !.task[t].messages = <<>>], t)

\* What follows an execute_raw that ended without an exception.  After the
\* preload: import_libraries drops its messages, get_kernel stores the
\* kernel (line 109) and returns it.  After the request's code: the success
\* response with the collected messages (lines 159-162, 183-186).
after_execute_raw(s, t) ==
    IF s.task[t].phase = "import"
    THEN get_kernel_return(
             [s EXCEPT !.kernels = DictSet(@, s.task[t].kernel_id, s.task[t].kernel)], t)
    ELSE Respond(s, t, ExecuteOk(s.task[t].messages))

\* ------------------------------------------- KernelManager.shutdown_kernel
\* shutdown_kernel for the identifiers of todo, one after the other (the
\* DELETE endpoint has one, shutdown_all the keys it listed): an identifier
\* that is not tracked is passed over without suspending (line 113); for a
\* tracked one JupyterKernel.shutdown stops the channels and suspends in
\* km.shutdown_kernel (lines 85-88).
shutdown_kernel_unguarded(s, t) ==
    IF s.task[t].todo = <<>>
    THEN Respond(s, t, KernelShutdown)
    ELSE LET id == Head(s.task[t].todo)
         IN  IF InKernels(s.kernels, id)
             THEN LET k == DictGet(s.kernels, id)
                  IN  [s EXCEPT !.jk[k].state = "closing",
                                !.jk[k].shutdown_calls = @ + 1,
                                !.task[t].kernel = k,
                                !.task[t].pc = "shutdown"]
             ELSE Raise(s, t, "KeyError")

RECURSIVE shutdown_kernel(_, _)
shutdown_kernel(s, t) ==
    IF s.task[t].todo = <<>>
    THEN Respond(s, t, KernelShutdown)
    ELSE LET id == Head(s.task[t].todo)
         IN  IF InKernels(s.kernels, id)
             THEN LET k == DictGet(s.kernels, id)
                  IN  [s EXCEPT !.jk[k].state = "closing",
                                !.jk[k].shutdown_calls = @ + 1,
                                !.task[t].kernel = k,
                                !.task[t].pc = "shutdown"]
             ELSE shutdown_kernel([s EXCEPT !.task[t].todo = Tail(@)], t)

\* Lines 115-117 after km.shutdown_kernel has returned.
after_shutdown_keeps_entry(s, t) ==
    LET s1 == [s EXCEPT !.jk[s.task[t].kernel].state = "dead"]
    IN  shutdown_kernel([s1 EXCEPT !.task[t].todo = Tail(@)], t)

after_shutdown(s, t) ==
    LET id == Head(s.task[t].todo)
        s1 == [s EXCEPT !.jk[s.task[t].kernel].state = "dead"]
    IN  IF ~InKernels(s1.kernels, id)
        THEN Raise(s1, t, "KeyError")
        ELSE shutdown_kernel(
                 [s1 EXCEPT !.kernels = DictDel(@, id),
                            !.kernel_locks[id] = NoLock,
                            !.task[t].todo = Tail(@)], t)

\* ----------------------------------------------------------- endpoints
\* POST /execute (lines 131-149).
execute_code_any_language(s, t, language) == get_kernel(s, t)

execute_code(s, t, language) ==
    IF language \in {"python", "bash"}
    THEN get_kernel(s, t)
    ELSE Raise(s, t, "HTTPException: Unsupported language")

\* ----------------------------------------- server.py: the relay's client
\* A JSON value of a mime bundle: every representation is a string, except
\* the application/json one, which is any JSON value.
JStr(s) == [kind |-> "str", str |-> s, num |-> 0]
JNum(n) == [kind |-> "num", str |-> "", num |-> n]

\* json.dumps: a string is quoted, a number is written in decimal.
json_dumps(v) ==
    IF v.kind = "str" THEN "\"" \o v.str \o "\"" ELSE ToString(v.num)

\* A raw message as _process_messages reads it: message["msg_type"] and, of
\* message["content"], the text of a stream message, the data (mime bundle) of
\* a display_data or execute_result message, the traceback of an error
\* message.  data is a dict in insertion order: <<[mime, value]>>.
RawMessage(msg_type, text, data, traceback) ==
    [msg_type |-> msg_type, text |-> text, data |-> data, traceback |-> traceback]

\* The representations a bundle may offer, each with its own value.
TextReprs ==
    {[mime |-> "image/png", value |-> JStr("iVBORw0K")],
     [mime |-> "image/jpeg", value |-> JStr("/9j/4AAQ")],
     [mime |-> "text/markdown", value |-> JStr("# two")],
     [mime |-> "text/html", value |-> JStr("<b>2</b>")],
     [mime |-> "text/plain", value |-> JStr("2")],
     [mime |-> "text/latex", value |-> JStr("$2$")]}

JsonReprs == {[mime |-> "application/json", value |-> v] : v \in {JNum(2), JStr("2")}}

Bundles ==
    {d \in UNION {[1..n -> TextReprs \cup JsonReprs] : n \in 0..MaxMimes} :
        \A i, j \in DOMAIN d : i # j => d[i].mime # d[j].mime}

TracebackLines == {"Traceback (most recent call last)", "ZeroDivisionError: division by zero"}

RawMessages ==
    {RawMessage("stream", text, <<>>, <<>>) : text \in {"", "out"}}
    \cup {RawMessage(ty, "", d, <<>>) : ty \in {"display_data", "execute_result"}, d \in Bundles}
    \cup {RawMessage("error", "", <<>>, tb) :
            tb \in UNION {[1..n -> TracebackLines] : n \in 0..MaxLines}}
    \cup {RawMessage(ty, "", <<>>, <<>>) : ty \in {"status", "execute_input"}}

\* "image" in mime_type
Contains(sub, s) ==
    \E i \in 1..(Len(s) - Len(sub) + 1) : SubSeq(s, i, i + Len(sub) - 1) = sub

\* list(data.keys()), x in mime_types, data[mime_type]
mime_types(data) == [i \in DOMAIN data |-> data[i].mime]

In(x, list) == \E i \in DOMAIN list : list[i] = x

DataGet(data, mime) == data[CHOOSE i \in DOMAIN data : data[i].mime = mime].value

\* "\n".join(traceback)
RECURSIVE join(_, _)
join(sep, lines) ==
    IF lines = <<>> THEN ""
    ELSE IF Len(lines) = 1 THEN lines[1]
    ELSE lines[1] \o sep \o join(sep, Tail(lines))

KernelOutput(mime_type, content, is_error) ==
    [mime_type |-> mime_type, content |-> content, is_error |-> is_error]

KeyError(key) == "KeyError: '" \o key \o "'"

\* The body of the loop of _process_messages (lines 75-127) for one message:
\* what it appends to results, and the exception it raises ("": none).
Appends(outputs) == [outputs |-> outputs, raised |-> ""]
Raises(e) == [outputs |-> <<>>, raised |-> e]

\* The choice of one representation of a mime bundle (lines 85-117).
display_markdown_first(data) ==
    LET types == mime_types(data)
        images == SelectSeq(types, LAMBDA mt : Contains("image", mt))
    IN  IF In("text/markdown", types)
        THEN Appends(<<KernelOutput("text/markdown",
                                    DataGet(data, "text/markdown").str, FALSE)>>)
        ELSE IF images # <<>>
        THEN Appends(<<KernelOutput(images[1], DataGet(data, images[1]).str, FALSE)>>)
        ELSE IF In("text/html", types)
        THEN Appends(<<KernelOutput("text/html", DataGet(data, "text/html").str, FALSE)>>)
        ELSE IF In("application/json", types)
        THEN Appends(<<KernelOutput("application/json",
                                    json_dumps(DataGet(data, "application/json")), FALSE)>>)
        ELSE IF In("text/plain", types)
        THEN Appends(<<KernelOutput("text/plain", DataGet(data, "text/plain").str, FALSE)>>)
        ELSE Raises(KeyError("text/plain"))

display(data) ==
    LET types == mime_types(data)
        images == SelectSeq(types, LAMBDA mt : Contains("image", mt))
    IN  IF images # <<>>
        THEN Appends(<<KernelOutput(images[1], DataGet(data, images[1]).str, FALSE)>>)
        ELSE IF In("text/markdown", types)
        THEN Appends(<<KernelOutput("text/markdown",
                                    DataGet(data, "text/markdown").str, FALSE)>>)
        ELSE IF In("text/html", types)
        THEN Appends(<<KernelOutput("text/html", DataGet(data, "text/html").str, FALSE)>>)
        ELSE IF In("application/json", types)
        THEN Appends(<<KernelOutput("application/json",
                                    json_dumps(DataGet(data, "application/json")), FALSE)>>)
        ELSE IF In("text/plain", types)
        THEN Appends(<<KernelOutput("text/plain", DataGet(data, "text/plain").str, FALSE)>>)
        ELSE Raises(KeyError("text/plain"))

\* The body of the loop of _process_messages for one message (lines 75-127).
process_message(message) ==
    IF message.msg_type = "stream"
    THEN Appends(<<KernelOutput("text/plain", message.text, FALSE)>>)
    ELSE IF message.msg_type = "display_data" \/ message.msg_type = "execute_result"
    THEN display(message.data)
    ELSE IF message.msg_type = "error"
    THEN Appends(<<KernelOutput("text/plain", join("\n", message.traceback), TRUE)>>)
    ELSE Appends(<<>>)

\* _process_messages as a whole (lines 70-128): the results it returns, or the
\* exception that leaves it.
RECURSIVE process_messages(_)
process_messages(messages) ==
    IF messages = <<>> THEN Appends(<<>>)
    ELSE LET first == process_message(Head(messages))
             rest == process_messages(Tail(messages))
         IN  IF first.raised # "" THEN first
             ELSE IF rest.raised # "" THEN rest
             ELSE Appends(first.outputs \o rest.outputs)

\* An Optional[str]: None, or a string.
None == [some |-> FALSE, str |-> ""]
Str(x) == [some |-> TRUE, str |-> x]

\* The context_id query parameter of the tool call as the middleware hands
\* it to the tool ("": the parameter is missing or empty): server_middleware
\* lines 25-28 and 38-42.
on_call_tool(context_id) == IF context_id # "" THEN Str(context_id) ELSE None

\* The relay's call of the service: pc is "idle" (no call yet), "process"
\* (inside _process_messages), "returned" or "raised".  kernel_id is
\* ctx.context_id, response the service's answer, messages the part of
\* response.messages the loop has still to visit, results the list the loop
\* builds.
IdleRelay ==
    [pc |-> "idle", kernel_id |-> None, response |-> NoResponse, messages |-> <<>>,
     results |-> <<>>, raised |-> ""]

\* The answers of the service to POST /execute.
Responses ==
    {ExecuteOk(msgs) : msgs \in UNION {[1..n -> RawMessages] : n \in 0..MaxMsgs}}
    \cup {ExecuteFailed(e) : e \in {StartError, ChannelError}}
    \cup {InternalServerError("Internal Server Error")}

\* The answer to a request body that is no ExecuteRequest (kernel_id: str is
\* null): the validation error, without the endpoint function being run.
UnprocessableEntity ==
    [status |-> 422, success |-> FALSE, messages |-> <<>>,
     error |-> "kernel_id: Input should be a valid string"]

\* Mutant of validate: a null kernel_id passes.
validate_accepts_null(kernel_id) == Responses

\* The answers the service can give to a request with this kernel_id.
validate(kernel_id) ==
    IF kernel_id.some THEN Responses ELSE {UnprocessableEntity}

\* ------------------------------- server.py: the environment's management
DefaultTimeout == 60    \* health_check(timeout: int = 60)
ProbeTimeout == 5       \* aiohttp.ClientTimeout(total=5)
Interval == 1           \* asyncio.sleep(1)

\* How a docker-compose command ends: its return code, or Popen cannot
\* launch it.
Exits == {"0", "1", "FileNotFoundError"}

\* How a probe of /health ends: a status, or an exception of the request.
Probes == {"200", "503", "ClientError", "TimeoutError"}

NoSession == 0

\* pc: "idle"; in start_docker_container "down", "up"; in health_check
\* "probe", "sleep"; in setup "close"; "ready" (setup returned), "failed"
\* (setup raised), "health_done" (a direct health_check returned); in cleanup
\* "cleanup_close", "cleanup_stop"; "stopped" (cleanup returned),
\* "cleanup_failed" (cleanup raised).  caller is who called health_check, now
\* the clock (time.time(), in seconds), start_time and timeout the locals of
\* health_check, healthy what health_check returned, setup how setup ended
\* ("returned", "raised"), error the exception that left setup, cleanup_error
\* the one that left cleanup.  The other fields record history: the
\* docker-compose commands that have ended, how the latest probe ended, the
\* clock at the end of the latest failed probe and at the return of
\* health_check, how the request of the client's shutdown_kernel ended when
\* the call returned.  session is ContainerKernelClient.session (NoSession:
\* None, else the number of a session object), sessions the session objects
\* ever created, each "open" or "closed", local the variable session of
\* health_check; last_request, on_closed and calls record history: the
\* session object of the latest request, whether some request was issued on
\* a closed session object, the calls of execute_code so far.
IdleEnv ==
    [pc |-> "idle", caller |-> "", now |-> 0, start_time |-> 0, timeout |-> 0,
     healthy |-> "", setup |-> "", error |-> "", cleanup_error |-> "",
     commands |-> <<>>, last_probe |-> "", last_failed |-> 0, returned_at |-> 0,
     shutdown_kernel |-> "",
     session |-> NoSession, sessions |-> <<>>, local |-> NoSession,
     last_request |-> NoSession, on_closed |-> FALSE, calls |-> 0]

\* Mutant of get_session: only a missing session object is replaced.
get_session_reuses_closed(e) ==
    IF e.session = NoSession
    THEN [e EXCEPT !.sessions = Append(@, "open"), !.session = Len(e.sessions) + 1]
    ELSE e

\* _get_session (lines 36-39).
get_session(e) ==
    IF e.session = NoSession \/ e.sessions[e.session] = "closed"
    THEN [e EXCEPT !.sessions = Append(@, "open"), !.session = Len(e.sessions) + 1]
    ELSE e

\* close (lines 140-143).
close(e) ==
    IF e.session # NoSession /\ e.sessions[e.session] # "closed"
    THEN [e EXCEPT !.sessions[e.session] = "closed"]
    ELSE e

\* session.post, session.delete or session.get on the session object s.
request(e, s) ==
    [e EXCEPT !.last_request = s,
              !.on_closed = @ \/ e.sessions[s] = "closed"]

\* The first two steps of execute_code (lines 43, 52) and of shutdown_kernel
\* (lines 132, 134): the session object, then the request on it.
request_on_session(e) ==
    LET e1 == get_session(e) IN request(e1, e1.session)

Command(name, exit) == [name |-> name, exit |-> exit]

\* An exception leaves start_docker_container (lines 204-206) and setup.
setup_raises(e, error) ==
    [e EXCEPT !.pc = "failed", !.setup = "raised", !.error = error]

\* health_check returns result to its caller: start_docker_container goes on
\* with lines 199-202, then setup with line 251.
health_check_returns(e, result) ==
    LET e1 == [e EXCEPT !.healthy = IF result THEN "True" ELSE "False",
                        !.returned_at = e.now]
    IN  IF e.caller = "health_check"
        THEN [e1 EXCEPT !.pc = "health_done"]
        ELSE IF result
        THEN [e1 EXCEPT !.pc = "close"]
        ELSE setup_raises(e1, "Container service failed to become healthy")

\* Mutant of health_check_loop: give up after the first failed probe.
health_check_loop_gives_up(e) ==
    IF e.now - e.start_time < e.timeout /\ e.last_probe = ""
    THEN [e EXCEPT !.pc = "probe"]
    ELSE health_check_returns(e, FALSE)

\* The head of the loop of health_check (line 150).
health_check_loop(e) ==
    IF e.now - e.start_time < e.timeout
    THEN [e EXCEPT !.pc = "probe"]
    ELSE health_check_returns(e, FALSE)

\* health_check up to its first probe (lines 147-150).
health_check(e, caller, timeout) ==
    LET e1 == get_session(e)
    IN  health_check_loop([e1 EXCEPT !.caller = caller, !.start_time = e.now,
                                     !.timeout = timeout, !.local = e1.session])

\* Mutant of compose_up: the return code of the start command is ignored.
compose_up_ignores_exit(e, exit) ==
    IF exit = "FileNotFoundError"
    THEN setup_raises(e, exit)
    ELSE health_check([e EXCEPT !.commands = Append(@, Command("up", exit))],
                      "setup", DefaultTimeout)

\* start_docker_container from the start command on (lines 181-199).
compose_up(e, exit) ==
    IF exit = "FileNotFoundError"
    THEN setup_raises(e, exit)
    ELSE LET e1 == [e EXCEPT !.commands = Append(@, Command("up", exit))]
         IN  IF exit # "0"
             THEN setup_raises(e1, "Failed to start container")
             ELSE health_check(e1, "setup", DefaultTimeout)

\* -------------------------------------------------------------- actions
Init ==
    /\ kernels = <<>>
    /\ kernel_locks = [id \in Ids |-> NoLock]
    /\ pool_lock = NoTask
    /\ locks = <<>>
    /\ jk = <<>>
    /\ task = [t \in Tasks |-> IdleTask]
    /\ relay = IdleRelay
    /\ env = IdleEnv

\* Requests arrive in the order of their numbers, and none after the
\* shutdown event of the application.
Arrives(t) ==
    /\ task[t].pc = "idle"
    /\ \A u \in Tasks : u < t => task[u].pc # "idle"
    /\ \A u \in Tasks : task[u].kind # "shutdown_all"

\* The identifiers are interchangeable: the first request names "a".
Names(t, id) == id = "a" \/ \E u \in Tasks : u < t /\ task[u].kernel_id = "a"

RECURSIVE Sum(_, _)
Sum(f, n) == IF n = 0 THEN 0 ELSE f[n] + Sum(f, n - 1)

\* The faults injected so far: cancellations, and awaits that raised.
Faults == Sum([t \in Tasks |-> task[t].faults], NumTasks)

Fault(s, t) == [s EXCEPT !.task[t].faults = @ + 1]

\* POST /execute arrives and runs to its first suspension point.
ExecuteRequest(t, id, language) ==
    /\ Arrives(t)
    /\ Names(t, id)
    /\ language \in {"python", "bash"} => pool_lock = NoTask
    /\ SetState(execute_code(
           [State EXCEPT !.task[t].kind = "execute",
                         !.task[t].kernel_id = id], t, language))

\* DELETE /kernel/{kernel_id} arrives (lines 188-192).
DeleteRequest(t, id) ==
    /\ Arrives(t)
    /\ Names(t, id)
    /\ SetState(shutdown_kernel(
           [State EXCEPT !.task[t].kind = "delete",
                         !.task[t].kernel_id = id,
                         !.task[t].todo = <<id>>], t))

\* The kernel object is a value of self.kernels; a get_kernel is between
\* constructing it and storing it.
Tracked(k) == \E i \in DOMAIN kernels : kernels[i].kernel = k

BeingCreated(k) ==
    /\ ~Tracked(k)
    /\ ~jk[k].abandoned
    /\ jk[k].state \in {"new", "started"}

\* The application's shutdown event: shutdown_all (lines 119-121, 199-202).
ShutdownEvent(t) ==
    /\ Arrives(t)
    /\ SetState(shutdown_kernel(
           [State EXCEPT !.task[t].kind = "shutdown_all",
                         !.task[t].todo = DictKeys(kernels),
                         !.jk = [k \in DOMAIN jk |->
                                   [jk[k] EXCEPT !.at_shutdown_all =
                                       Tracked(k) \/ BeingCreated(k)]]], t))

\* The per-identifier lock was handed to a waiting get_kernel.
KernelLockAcquired(t) ==
    /\ task[t].pc = "kernel_lock"
    /\ locks[task[t].lock].holder = t
    /\ SetState(get_kernel_locked(State, t))

\* kernel.start() returns (line 107); the preload follows (line 108).
StartDone(t) ==
    /\ task[t].pc = "start"
    /\ SetState(import_libraries(
           [State EXCEPT !.jk[task[t].kernel].state = "started"], t))

\* kernel.start() raises: the interpreter could not be launched or did not
\* become ready.
StartRaises(t) ==
    /\ Faults < MaxFaults
    /\ task[t].pc = "start"
    /\ SetState(Raise(leave_get_kernel(
           [Fault(State, t) EXCEPT !.jk[task[t].kernel].state = "failed"], t), t,
           StartError))

\* The execution mutex was handed to a waiting execute_raw.
ExecutionLockAcquired(t) ==
    /\ task[t].pc = "execution_lock"
    /\ jk[task[t].kernel].execution_lock.holder = t
    /\ SetState(kc_execute(State, t))

\* The interpreter takes the next request from its shell channel, runs it
\* and publishes its events.  Nothing but a read of iopub observes when it
\* does so: the model lets it run when a read finds iopub empty.
KernelRun(s, k, outs) ==
    IF s.jk[k].iopub = <<>> /\ s.jk[k].shell # <<>>
    THEN [s EXCEPT !.jk[k].shell = Tail(@),
                   !.jk[k].iopub = Publish(s.jk[k].published, Head(s.jk[k].shell), outs),
                   !.jk[k].published = @ + outs + 2]
    ELSE s

\* Lines 69-78: one message is read from iopub and yielded; the status idle
\* message ends execute_raw.
GetIopubMsg(t, outs) ==
    /\ task[t].pc = "get_iopub_msg"
    /\ jk[task[t].kernel].state = "started"
    /\ jk[task[t].kernel].iopub # <<>> \/ jk[task[t].kernel].shell # <<>>
    /\ jk[task[t].kernel].iopub # <<>> => outs = 0
    /\ LET k     == task[t].kernel
           s0    == KernelRun(State, k, outs)
           reply == Head(s0.jk[k].iopub)
           s1    == [s0 EXCEPT !.jk[k].iopub = Tail(@),
                               !.task[t].messages = Append(@, reply)]
       IN  SetState(IF IsIdle(reply)
                    THEN after_execute_raw(leave_execute_raw(s1, t, "idle"), t)
                    ELSE s1)

\* The channel read raises: the interpreter channel is broken.
GetIopubMsgRaises(t) ==
    /\ Faults < MaxFaults
    /\ task[t].pc = "get_iopub_msg"
    /\ SetState(execute_raw_raises(Fault(State, t), t, ChannelError))

\* km.shutdown_kernel() returns (line 88).
ShutdownDone(t) ==
    /\ task[t].pc = "shutdown"
    /\ SetState(after_shutdown(State, t))

\* The task is cancelled at the suspension point where it waits.  In
\* execute_raw's read loop the CancelledError is caught (lines 80-82): the
\* generator ends and its caller goes on as after the idle message.
\* Everywhere else it propagates, through the async with blocks it is in.
Cancel(t) ==
    /\ Faults < MaxFaults
    /\ task[t].pc \in {"kernel_lock", "start", "execution_lock", "get_iopub_msg", "shutdown"}
    /\ LET s0 == [Fault(State, t) EXCEPT !.task[t].cancels = @ + 1]
           k  == task[t].kernel
       IN  SetState(
             CASE task[t].pc = "get_iopub_msg" ->
                    after_execute_raw(leave_execute_raw(s0, t, "cancelled"), t)
               [] task[t].pc = "execution_lock" ->
                    Cancelled([s0 EXCEPT !.jk[k].execution_lock = Withdraw(@, t)], t)
               [] task[t].pc = "kernel_lock" ->
                    Cancelled([s0 EXCEPT !.locks[task[t].lock] = Withdraw(@, t)], t)
               [] task[t].pc = "start" ->
                    Cancelled(leave_get_kernel(s0, t), t)
               [] OTHER ->
                    Cancelled(s0, t))

Next ==
    \/ \E t \in Tasks, id \in Ids, language \in Languages : ExecuteRequest(t, id, language)
    \/ \E t \in Tasks, id \in Ids : DeleteRequest(t, id)
    \/ \E t \in Tasks : ShutdownEvent(t)
    \/ \E t \in Tasks : KernelLockAcquired(t)
    \/ \E t \in Tasks : StartDone(t)
    \/ \E t \in Tasks : StartRaises(t)
    \/ \E t \in Tasks : ExecutionLockAcquired(t)
    \/ \E t \in Tasks, outs \in 0..MaxOut : GetIopubMsg(t, outs)
    \/ \E t \in Tasks : GetIopubMsgRaises(t)
    \/ \E t \in Tasks : ShutdownDone(t)
    \/ \E t \in Tasks : Cancel(t)

Spec == Init /\ [][Next]_vars

\* The event loop runs a task that a released lock has woken: the wake-up
\* is a callback on the loop's ready queue.
SpecFair == Spec /\ WF_vars(\E t \in Tasks : KernelLockAcquired(t))

\* ------------------------------------------------- actions of the relay
service_vars == <<kernels, kernel_locks, pool_lock, locks, jk, task>>

\* The values of the context_id query parameter: missing, or an identifier.
ContextIds == {"", "a"}

\* What ContainerKernelClient.execute_code does with the response of the
\* service (lines 53-63).
read_response_unchecked(r, response) ==
    IF response.status # 200
    THEN [r EXCEPT !.pc = "raised", !.response = response,
                   !.raised = "Container service error: " \o response.error]
    ELSE [r EXCEPT !.pc = "process", !.response = response,
                   !.messages = response.messages]

read_response(r, response) ==
    IF response.status # 200
    THEN [r EXCEPT !.pc = "raised", !.response = response,
                   !.raised = "Container service error: " \o response.error]
    ELSE IF ~response.success
    THEN [r EXCEPT !.pc = "raised", !.response = response,
                   !.raised = "Execution failed: " \o response.error]
    ELSE [r EXCEPT !.pc = "process", !.response = response,
                   !.messages = response.messages]

\* The tool execute_code (lines 231-244) calls ContainerKernelClient.
\* execute_code, which posts the request and reads the response (lines 43-63).
ExecuteCode ==
    /\ relay.pc = "idle"
    /\ \E context_id \in ContextIds :
         LET kernel_id == on_call_tool(context_id)
         IN  \E response \in validate(kernel_id) :
                relay' = read_response([relay EXCEPT !.kernel_id = kernel_id], response)
    /\ env' = request_on_session(env)
    /\ UNCHANGED service_vars

\* str(e) of the aiohttp.ClientError that session.post raises.
ClientError == "Cannot connect to host localhost:8060"

\* session.post raises aiohttp.ClientError (lines 65-67).
PostRaises ==
    /\ relay.pc = "idle"
    /\ \E context_id \in ContextIds :
         relay' = [relay EXCEPT !.pc = "raised",
                     !.kernel_id = on_call_tool(context_id),
                     !.raised = "Failed to connect to container service: " \o ClientError]
    /\ env' = request_on_session(env)
    /\ UNCHANGED service_vars

\* One iteration of the loop of _process_messages (lines 74-127).
ProcessMessage ==
    /\ relay.pc = "process"
    /\ relay.messages # <<>>
    /\ LET step == process_message(Head(relay.messages))
       IN  relay' =
             IF step.raised # ""
             THEN [relay EXCEPT !.pc = "raised", !.raised = step.raised]
             ELSE [relay EXCEPT !.messages = Tail(@),
                                !.results = @ \o step.outputs]
    /\ UNCHANGED <<service_vars, env>>

\* The loop is over: return results (lines 128, 63, 244).
ProcessReturn ==
    /\ relay.pc = "process"
    /\ relay.messages = <<>>
    /\ relay' = [relay EXCEPT !.pc = "returned"]
    /\ UNCHANGED <<service_vars, env>>

RelayNext ==
    \/ ExecuteCode
    \/ PostRaises
    \/ ProcessMessage
    \/ ProcessReturn

SpecRelay == Init /\ [][RelayNext]_vars

\* ------------------------------------- actions of the environment's management
\* setup calls start_docker_container (lines 249, 164-168).
Setup ==
    /\ env.pc = "idle"
    /\ env' = [env EXCEPT !.pc = "down"]
    /\ UNCHANGED <<service_vars, relay>>

\* start_docker_container: docker-compose down, waited for by communicate()
\* (lines 169-176); its return code is not looked at.
StopExisting(exit) ==
    /\ env.pc = "down"
    /\ env' = IF exit = "FileNotFoundError"
              THEN setup_raises(env, exit)
              ELSE [env EXCEPT !.pc = "up",
                               !.commands = Append(@, Command("down", exit))]
    /\ UNCHANGED <<service_vars, relay>>

\* start_docker_container: docker-compose up -d (lines 181-199).
ComposeUp(exit) ==
    /\ env.pc = "up"
    /\ env' = compose_up(env, exit)
    /\ UNCHANGED <<service_vars, relay>>

\* health_check(timeout) called directly.
HealthCheck(timeout) ==
    /\ env.pc = "idle"
    /\ env' = health_check(env, "health_check", timeout)
    /\ UNCHANGED <<service_vars, relay>>

\* One probe of /health, which takes d seconds (lines 151-156).
HealthProbe(probe, d) ==
    /\ env.pc = "probe"
    /\ probe = "TimeoutError" => d = ProbeTimeout
    /\ LET e1 == [request(env, env.local) EXCEPT !.now = @ + d, !.last_probe = probe]
       IN  env' = IF probe = "200"
                  THEN health_check_returns(e1, TRUE)
                  ELSE [e1 EXCEPT !.pc = "sleep", !.last_failed = e1.now]
    /\ UNCHANGED <<service_vars, relay>>

\* asyncio.sleep(1) and the head of the loop (lines 157, 150, 159).
HealthSleep ==
    /\ env.pc = "sleep"
    /\ env' = health_check_loop([env EXCEPT !.now = @ + Interval])
    /\ UNCHANGED <<service_vars, relay>>

\* setup: await container_client.close() (line 251), then the middleware.
SetupClose(raises) ==
    /\ env.pc = "close"
    /\ env' = IF raises
              THEN setup_raises(env, "RuntimeError")
              ELSE [close(env) EXCEPT !.pc = "ready", !.setup = "returned"]
    /\ UNCHANGED <<service_vars, relay>>

\* ContainerKernelClient.shutdown_kernel (lines 130-137): how the DELETE
\* request ends is swallowed.
ClientShutdownKernel(outcome) ==
    /\ env.pc = "ready"
    /\ env.shutdown_kernel = ""
    /\ env' = [request_on_session(env) EXCEPT !.shutdown_kernel = outcome]
    /\ UNCHANGED <<service_vars, relay>>

\* ContainerKernelClient.execute_code as far as the connection session goes
\* (lines 43, 52): the session object, then the POST on it; what the call
\* does with the response changes nothing of the client (see ExecuteCode).
ClientExecuteCode ==
    /\ env.pc = "ready"
    /\ env.calls < MaxCalls
    /\ env' = [request_on_session(env) EXCEPT !.calls = @ + 1]
    /\ UNCHANGED <<service_vars, relay>>

\* cleanup: await container_client.close() (line 262).
Cleanup(raises) ==
    /\ env.pc \in {"ready", "failed"}
    /\ env' = IF raises
              THEN [env EXCEPT !.pc = "cleanup_failed", !.cleanup_error = "RuntimeError"]
              ELSE [close(env) EXCEPT !.pc = "cleanup_stop"]
    /\ UNCHANGED <<service_vars, relay>>

\* cleanup: stop_docker_container (lines 263, 208-225), which catches
\* whatever the command raises and only prints its return code.
StopDockerContainer(exit) ==
    /\ env.pc = "cleanup_stop"
    /\ env' = [env EXCEPT !.pc = "stopped",
                          !.commands = IF exit = "FileNotFoundError" THEN @
                                       ELSE Append(@, Command("down", exit))]
    /\ UNCHANGED <<service_vars, relay>>

EnvNext ==
    \/ Setup
    \/ \E exit \in Exits : StopExisting(exit)
    \/ \E exit \in Exits : ComposeUp(exit)
    \/ \E timeout \in 0..MaxTimeout : HealthCheck(timeout)
    \/ \E probe \in Probes, d \in 0..ProbeTimeout : HealthProbe(probe, d)
    \/ HealthSleep
    \/ \E raises \in BOOLEAN : SetupClose(raises)
    \/ \E outcome \in {"200", "500", "ClientError"} : ClientShutdownKernel(outcome)
    \/ ClientExecuteCode
    \/ \E raises \in BOOLEAN : Cleanup(raises)
    \/ \E exit \in Exits : StopDockerContainer(exit)

SpecEnv == Init /\ [][EnvNext]_vars

\* The event loop runs the coroutine on: a command ends, a probe ends (it
\* has a timeout), a sleep ends.
SpecEnvFair ==
    /\ SpecEnv
    /\ WF_vars(\E probe \in Probes, d \in 0..ProbeTimeout : HealthProbe(probe, d))
    /\ WF_vars(HealthSleep)

\* ------------------------------------------------------------- claims
KernelObjs == 1..Len(jk)

KernelsFor(id) == {k \in KernelObjs : jk[k].id = id}

\* The tasks inside an execute_raw call on kernel k.
InFlight(k) == {t \in Tasks : task[t].pc = "get_iopub_msg" /\ task[t].kernel = k}

Queued(k) == {t \in Tasks : task[t].pc = "execution_lock" /\ task[t].kernel = k}

\* No creation for id was abandoned (start or preload raised, start
\* cancelled) and no session of id was shut down.
Undisturbed(id) ==
    \A k \in KernelsFor(id) : ~jk[k].abandoned /\ jk[k].shutdown_calls = 0

\* C1: concurrent get_kernel calls with one identifier construct exactly one
\* JupyterKernel, start and preload it once, and all receive that object
\* (as long as no creation for the identifier is abandoned and no session of
\* it is shut down).
C1_OneKernelPerId ==
    \A id \in Ids :
        Undisturbed(id) =>
            /\ Cardinality(KernelsFor(id)) <= 1
            /\ \A k \in KernelsFor(id) : jk[k].preloads <= 1
            /\ \A t \in Tasks :
                   task[t].kind = "execute" /\ task[t].kernel_id = id
                   /\ task[t].kernel # NoKernel
                   => /\ KernelsFor(id) = {task[t].kernel}
                      /\ task[t].phase = "code" =>
                             /\ InKernels(kernels, id)
                             /\ DictGet(kernels, id) = task[t].kernel
                             /\ jk[task[t].kernel].preloads = 1
                             /\ jk[task[t].kernel].state = "started"

\* Three calls for "a" overlapped in get_kernel: the third still waits at the
\* per-identifier lock, the first two hold the one kernel.
C1_Witness ==
    /\ Len(jk) = 1
    /\ Undisturbed("a")
    /\ \A t \in 1..3 : task[t].kind = "execute" /\ task[t].kernel_id = "a"
    /\ task[1].kernel = 1 /\ task[1].phase = "code"
    /\ task[2].kernel = 1 /\ task[2].phase = "code"
    /\ task[3].pc = "kernel_lock"

\* C2: a session has at most one execute_raw between sending its code and
\* finishing; it holds the execution mutex, and every other execute_raw on
\* the session waits in the mutex's queue (or has just been handed it).
C2_OneInFlight ==
    \A k \in KernelObjs :
        /\ Cardinality(InFlight(k)) <= 1
        /\ \A t \in InFlight(k) : jk[k].execution_lock.holder = t
        /\ \A t \in Queued(k) :
               \/ jk[k].execution_lock.holder = t /\ InFlight(k) = {}
               \/ /\ \E i \in 1..Len(jk[k].execution_lock.waiters) :
                          jk[k].execution_lock.waiters[i] = t
                  /\ jk[k].execution_lock.holder # NoTask

\* One call is in flight on a session and another waits for its mutex.
C2_Witness ==
    \E k \in KernelObjs : \E t, u \in Tasks :
        /\ t \in InFlight(k) /\ task[t].phase = "code"
        /\ u \in Queued(k) /\ jk[k].execution_lock.holder = t

\* C3: the pool-wide lock is free at every suspension point, and a task that
\* waits for a lock waits for a task working for the same identifier.
C3_NoCrossIdBlocking ==
    /\ pool_lock = NoTask
    /\ \A t \in Tasks :
           /\ task[t].pc = "kernel_lock" /\ locks[task[t].lock].holder # t
              => /\ locks[task[t].lock].holder # NoTask
                 /\ task[locks[task[t].lock].holder].kernel_id = task[t].kernel_id
                 /\ task[locks[task[t].lock].holder].pc \in {"start", "get_iopub_msg", "kernel_lock"}
           /\ task[t].pc = "execution_lock" /\ jk[task[t].kernel].execution_lock.holder # t
              => /\ jk[task[t].kernel].execution_lock.holder # NoTask
                 /\ task[jk[task[t].kernel].execution_lock.holder].kernel_id = task[t].kernel_id

\* While get_kernel("a") is suspended in start or preload, a request for "b"
\* has created its session, executed and answered.
C3_Witness ==
    \E t, u \in Tasks :
        /\ task[t].kernel_id = "a" /\ task[t].kind = "execute"
        /\ task[t].pc = "start" \/ (task[t].pc = "get_iopub_msg" /\ task[t].phase = "import")
        /\ task[u].kernel_id = "b" /\ task[u].kind = "execute"
        /\ task[u].pc = "done" /\ task[u].resp.success
        /\ u > t

\* The tasks waiting for the execution mutex of k, in the order in which the
\* mutex will reach them.
WaitOrder(k) ==
    LET l == jk[k].execution_lock
    IN  (IF l.holder # NoTask /\ task[l.holder].pc = "execution_lock"
         THEN <<l.holder>> ELSE <<>>) \o l.waiters

\* The events a task has collected from kernel k, or has returned.
Collected(t) == task[t].messages \o task[t].resp.messages

Positions(t) == {Collected(t)[i].n : i \in 1..Len(Collected(t))}

\* Codes are sent in the order in which their calls reached the mutex: every
\* waiting call arrived after the latest sender, and the queue is in order
\* of arrival.
SentInArrivalOrder ==
    \A k \in KernelObjs :
        \A i \in 1..Len(WaitOrder(k)) :
            /\ task[WaitOrder(k)[i]].ticket > jk[k].last_sent
            /\ \A j \in 1..Len(WaitOrder(k)) :
                   i < j => task[WaitOrder(k)[i]].ticket < task[WaitOrder(k)[j]].ticket

\* What two calls on one session read from the channel does not overlap:
\* each call's events are consecutive on the channel.
DisjointReads ==
    \A t \in Tasks :
        /\ \A i \in 1..(Len(Collected(t)) - 1) :
               Collected(t)[i + 1].n = Collected(t)[i].n + 1
        /\ \A u \in Tasks :
               u # t /\ task[u].kernel = task[t].kernel /\ task[t].kind = "execute"
               /\ task[u].kind = "execute"
               => Positions(t) \cap Positions(u) = {}

OwnEvents(t) ==
    \A i \in 1..Len(Collected(t)) : Collected(t)[i].parent[1] = t

\* C4, as stated: sent in arrival order; a call that queued sends only after
\* the call before it has seen its idle event; no call is handed events of
\* another call.
C4_AsStated ==
    /\ SentInArrivalOrder
    /\ \A t \in Tasks :
           task[t].sent /\ task[t].queued => task[t].after = "idle"
    /\ \A t \in Tasks : OwnEvents(t)

\* C4, amended: sent in arrival order; a call that queued sends only after
\* the call before it has left execute_raw (idle event seen, cancelled, or
\* channel read raised), while no other call is in flight; the reads of two
\* calls never overlap; and while no call on the session has left before its
\* idle event, every call is handed its own events only.
C4_SerializedInOrder ==
    /\ SentInArrivalOrder
    /\ \A t \in Tasks :
           task[t].sent /\ task[t].queued
           => /\ task[t].after \in {"idle", "cancelled", "raised"}
              /\ task[t].pc = "get_iopub_msg" => InFlight(task[t].kernel) = {t}
    /\ DisjointReads
    /\ \A t \in Tasks :
           task[t].kind = "execute" /\ task[t].kernel # NoKernel
           /\ ~jk[task[t].kernel].unfinished
           => OwnEvents(t)

\* Three calls on one session: the first has answered with its own events,
\* the second, which queued, has sent after the first's idle event, the third
\* is still queued.
C4_Witness ==
    \E k \in KernelObjs :
        /\ ~jk[k].unfinished
        /\ \A t \in 1..3 : task[t].kernel = k /\ task[t].kind = "execute"
        /\ task[1].pc = "done" /\ task[1].resp.success /\ Len(task[1].resp.messages) >= 2
        /\ task[2].pc = "get_iopub_msg" /\ task[2].queued /\ task[2].after = "idle"
        /\ task[3].pc = "execution_lock" /\ task[3].ticket > task[2].ticket

\* C5: the execution mutex is only ever held by a call that is inside
\* execute_raw on that session; and the step that delivers a cancellation to
\* an in-flight execute_raw releases the mutex that call held and leaves the
\* session as it was: tracked by the pool if it was, not shut down.
C5_CancelReleasesMutex ==
    /\ [](\A k \in KernelObjs :
              LET h == jk[k].execution_lock.holder
              IN  h # NoTask
                  => /\ task[h].kernel = k
                     /\ task[h].pc \in {"get_iopub_msg", "execution_lock"})
    /\ [][\A t \in Tasks :
              task[t].pc = "get_iopub_msg" /\ task'[t].cancels > task[t].cancels
              => LET k  == task[t].kernel
                     id == task[t].kernel_id
                 IN  /\ \/ jk'[k].execution_lock.holder # t
                        \/ task'[t].phase # task[t].phase
                     /\ jk'[k].state = jk[k].state
                     /\ jk'[k].shutdown_calls = jk[k].shutdown_calls
                     /\ InKernels(kernels, id)
                        => InKernels(kernels', id)
                           /\ DictGet(kernels', id) = DictGet(kernels, id)
                     /\ task[t].phase = "code"
                        => kernels' = kernels /\ kernel_locks' = kernel_locks]_vars

\* After a call on a session was cancelled in flight, another call has taken
\* the mutex of that session, still tracked, and has sent its code.
C5_Witness ==
    \E t, u \in Tasks :
        /\ t # u
        /\ task[t].cancels = 1 /\ task[t].pc = "done" /\ task[t].phase = "code"
        /\ task[u].kernel = task[t].kernel
        /\ task[u].queued /\ task[u].after = "cancelled"
        /\ task[u].pc = "get_iopub_msg"
        /\ InKernels(kernels, task[t].kernel_id)
        /\ DictGet(kernels, task[t].kernel_id) = task[t].kernel

\* C6: the step in which the channel read of an execution raises answers the
\* caller with success=false, the error text and no messages, releases the
\* mutex, and changes neither the pool nor the session's interpreter.
C6_BrokenChannelKeepsSession ==
    [][\A t \in Tasks :
           /\ task[t].pc = "get_iopub_msg" /\ task[t].phase = "code"
           /\ task'[t].faults > task[t].faults
           /\ task'[t].cancels = task[t].cancels
           => LET k == task[t].kernel
              IN  /\ task'[t].pc = "done"
                  /\ task'[t].resp.status = 200
                  /\ ~task'[t].resp.success
                  /\ task'[t].resp.error = Traceback(ChannelError)
                  /\ task'[t].resp.messages = <<>>
                  /\ jk'[k].execution_lock.holder # t
                  /\ kernels' = kernels
                  /\ kernel_locks' = kernel_locks
                  /\ jk'[k].state = jk[k].state
                  /\ jk'[k].shutdown_calls = jk[k].shutdown_calls]_vars

\* A call failed on a broken channel, and the next request for the identifier
\* has got the same session from get_kernel and has sent its code to it.
C6_Witness ==
    \E t, u \in Tasks :
        /\ t < u
        /\ task[t].pc = "done" /\ task[t].resp.error = Traceback(ChannelError)
        /\ task[t].phase = "code"
        /\ task[u].kernel_id = task[t].kernel_id /\ task[u].kernel = task[t].kernel
        /\ ~task[u].queued /\ task[u].sent /\ task[u].after = "raised"
        /\ DictGet(kernels, task[t].kernel_id) = task[t].kernel

\* ------------------------------------------------ claims about the relay
ResponseMessages == relay.response.messages

\* The messages the loop of _process_messages has finished with, and the one
\* it is at.
Visited == SubSeq(ResponseMessages, 1, Len(ResponseMessages) - Len(relay.messages))

IsDisplay(m) == m.msg_type \in {"display_data", "execute_result"}

Bearing(m) == m.msg_type \in {"stream", "display_data", "execute_result", "error"}

\* _process_messages was called and has ended, one way or the other.
Translated == relay.response.success /\ relay.pc \in {"returned", "raised"}

\* C7: for every sequence of raw events _process_messages returns the
\* in-order concatenation of the per-event results: one Output for each
\* stream, display_data, execute_result and error event (a stream's being
\* text/plain, its text, is_error false) and none for any other event, so
\* that the Outputs are as many as those events and in their order.
C7_InOrderConcatenation ==
    Translated =>
        /\ relay.pc = "returned"
        /\ LET events == SelectSeq(ResponseMessages, Bearing)
           IN  /\ Len(relay.results) = Len(events)
               /\ \A i \in DOMAIN events :
                    /\ events[i].msg_type = "stream" =>
                         relay.results[i] = KernelOutput("text/plain", events[i].text, FALSE)
                    /\ IsDisplay(events[i]) =>
                         \E r \in DOMAIN events[i].data :
                            relay.results[i].mime_type = events[i].data[r].mime
                    /\ relay.results[i].is_error = (events[i].msg_type = "error")

\* The representation the priority order chooses among the offered ones, and
\* its value as Output content.
PriorityChoice(data) ==
    LET offered == {data[i].mime : i \in DOMAIN data}
        images == {i \in DOMAIN data : Contains("image", data[i].mime)}
    IN  IF images # {} THEN data[CHOOSE i \in images : \A j \in images : i <= j].mime
        ELSE IF "text/markdown" \in offered THEN "text/markdown"
        ELSE IF "text/html" \in offered THEN "text/html"
        ELSE IF "application/json" \in offered THEN "application/json"
        ELSE "text/plain"

Representation(data, mime) ==
    LET value == data[CHOOSE i \in DOMAIN data : data[i].mime = mime].value
    IN  IF mime = "application/json"
        THEN (IF value.kind = "num" THEN ToString(value.num)
              ELSE "\"" \o value.str \o "\"")
        ELSE value.str

\* C8: the Output emitted for a display_data or execute_result event has the
\* mime type the priority order chooses among the offered ones (one
\* containing "image", else text/markdown, else text/html, else
\* application/json, else text/plain) and, as content, the value of that
\* representation (serialized to JSON text for application/json).
C8_PriorityChoice ==
    [][(ProcessMessage /\ IsDisplay(Head(relay.messages)) /\ relay'.pc # "raised") =>
        LET data == Head(relay.messages).data
            output == relay'.results[Len(relay'.results)]
        IN  /\ Len(relay'.results) = Len(relay.results) + 1
            /\ output.mime_type = PriorityChoice(data)
            /\ output.content = Representation(data, output.mime_type)]_vars

C8_Witness ==
    /\ relay.pc = "returned"
    /\ Len(ResponseMessages) = 2
    /\ ResponseMessages[1].msg_type = "display_data"
    /\ mime_types(ResponseMessages[1].data) = <<"text/plain", "image/png">>
    /\ ResponseMessages[2].msg_type = "execute_result"
    /\ mime_types(ResponseMessages[2].data) = <<"text/plain">>
    /\ relay.results = <<KernelOutput("image/png", "iVBORw0K", FALSE),
                         KernelOutput("text/plain", "2", FALSE)>>

\* C9: mime-type selection is total: whatever representations a display_data
\* or execute_result event carries, translating it does not fail and emits
\* exactly one Output.
C9_SelectionTotal ==
    [][(ProcessMessage /\ IsDisplay(Head(relay.messages))) =>
        /\ relay'.pc # "raised"
        /\ Len(relay'.results) = Len(relay.results) + 1]_vars

\* C10: when the interpreter reported an error (an error event in a
\* successful response), execute_code returns, without raising, Outputs in
\* which each error event is one Output text/plain, is_error true, content
\* the traceback lines joined by newline, and every other Output has
\* is_error false.
C10_ErrorEventIsOutput ==
    (Translated /\ \E i \in DOMAIN ResponseMessages : ResponseMessages[i].msg_type = "error") =>
        /\ relay.pc = "returned"
        /\ LET events == SelectSeq(ResponseMessages, Bearing)
           IN  \A i \in DOMAIN events :
                 /\ i <= Len(relay.results)
                 /\ IF events[i].msg_type = "error"
                    THEN relay.results[i] =
                           KernelOutput("text/plain", join("\n", events[i].traceback), TRUE)
                    ELSE ~relay.results[i].is_error

\* What the service reported: the error of its response, or the text of the
\* connection error when there was no response.
UpstreamError ==
    IF relay.response = NoResponse THEN ClientError ELSE relay.response.error

\* C11: ContainerKernelClient.execute_code returns Outputs only on a success
\* response.  On success=false, on a status other than 200 and on a failed
\* connection it raises an error whose message contains the upstream error
\* text verbatim, having translated nothing and holding no Output; on
\* success=true its outcome is exactly the translation of the returned
\* messages.
C11_OutputsOnlyOnSuccess ==
    /\ relay.pc \in {"process", "returned"} =>
         relay.response.status = 200 /\ relay.response.success
    /\ (relay.pc = "raised" /\ ~relay.response.success) =>
         /\ Contains(UpstreamError, relay.raised)
         /\ UpstreamError # ""
         /\ relay.results = <<>>
         /\ relay.messages = <<>>
    /\ relay.pc = "returned" =>
         process_messages(ResponseMessages) = Appends(relay.results)
    /\ (relay.pc = "raised" /\ relay.response.success) =>
         process_messages(ResponseMessages) = Raises(relay.raised)

C11_Witness ==
    /\ relay.pc = "raised"
    /\ relay.response = ExecuteFailed(ChannelError)
    /\ relay.raised = "Execution failed: " \o Traceback(ChannelError)
    /\ relay.results = <<>>

\* ---------------------------------------------- claims about the endpoints
Executed(t) == task[t].kind = "execute" /\ task[t].pc = "done"

\* C12: every response of POST /execute with success=false carries a
\* non-empty error and no messages, and every response with success=true
\* carries no error; a request whose language is neither python nor bash is
\* answered with success=false and a non-empty error, and leaves the pool as
\* it was (no session created, fetched or executed on).
C12_FailureCarriesError ==
    /\ [](\A t \in Tasks :
              Executed(t) =>
                  /\ task[t].resp.status = 200
                  /\ ~task[t].resp.success =>
                        task[t].resp.error # "" /\ task[t].resp.messages = <<>>
                  /\ task[t].resp.success => task[t].resp.error = "")
    /\ [][\A t \in Tasks, id \in Ids :
              ExecuteRequest(t, id, "ruby") =>
                  /\ Executed(t)'
                  /\ ~task'[t].resp.success
                  /\ task'[t].resp.error # ""
                  /\ task'[t].resp.messages = <<>>
                  /\ UNCHANGED <<kernels, kernel_locks, pool_lock, locks, jk>>]_vars

C12_Witness ==
    \E t, u \in Tasks :
        /\ Executed(t) /\ task[t].resp.success /\ task[t].resp.messages # <<>>
        /\ Executed(u) /\ u > t
        /\ task[u].resp = ExecuteFailed("HTTPException: Unsupported language")
        /\ InKernels(kernels, task[u].kernel_id)

Deleted(t) == task[t].kind = "delete" /\ task[t].pc = "done"

\* C13: shutdown_kernel(id) for an identifier that is not tracked (never
\* created, or already shut down) is a no-op: it does not raise, calls no
\* session's shutdown and leaves the session map and the lock map as they
\* were; so a second shutdown_kernel(id) after the first has returned changes
\* nothing.
C13_ShutdownUntrackedIsNoOp ==
    [][\A t \in Tasks, id \in Ids :
          (DeleteRequest(t, id) /\ ~InKernels(kernels, id)) =>
              /\ Deleted(t)'
              /\ task'[t].resp = KernelShutdown
              /\ UNCHANGED <<kernels, kernel_locks, pool_lock, locks, jk>>]_vars

C13_Witness ==
    \E t, u \in Tasks :
        /\ t < u
        /\ Deleted(t) /\ task[t].resp = KernelShutdown /\ task[t].kernel = 1
        /\ Deleted(u) /\ task[u].resp = KernelShutdown /\ task[u].kernel = NoKernel
        /\ task[t].kernel_id = task[u].kernel_id
        /\ ~InKernels(kernels, task[t].kernel_id)
        /\ Len(jk) = 1
        /\ jk[1].state = "dead" /\ jk[1].shutdown_calls = 1

\* C14: DELETE /kernel/{id} always succeeds from the caller's perspective,
\* for every identifier, known or unknown, and under every interleaving of
\* overlapping teardown requests: each teardown request that completes is
\* answered without an error.
C14_TeardownAlwaysSucceeds ==
    \A t \in Tasks : Deleted(t) => task[t].resp = KernelShutdown

Absent(id) == ~InKernels(kernels, id) /\ kernel_locks[id] = NoLock

\* C15: when shutdown_kernel(id) completes for a tracked identifier, the
\* session's shutdown has been called and neither the session map nor the
\* lock map contains id; and a get_kernel(id) that finds the identifier
\* absent constructs and starts a fresh session, never returning one that was
\* shut down.
C15_ShutdownMakesAbsent ==
    /\ [][\A t \in Tasks :
              (task[t].kind = "delete" /\ ShutdownDone(t) /\ task'[t].resp = KernelShutdown) =>
                  /\ jk'[task[t].kernel].shutdown_calls >= 1
                  /\ jk'[task[t].kernel].state = "dead"
                  /\ Absent(task[t].kernel_id)']_vars
    /\ [][\A t \in Tasks, id \in Ids, language \in {"python", "bash"} :
              (ExecuteRequest(t, id, language) /\ Absent(id)) =>
                  /\ Len(jk') = Len(jk) + 1
                  /\ task'[t].kernel = Len(jk')
                  /\ task'[t].pc = "start"
                  /\ jk'[Len(jk')] = NewKernel(id)]_vars

C15_Witness ==
    \E t, u \in Tasks :
        /\ t < u
        /\ Deleted(t) /\ task[t].resp = KernelShutdown /\ task[t].kernel = 1
        /\ jk[1].state = "dead"
        /\ task[u].kind = "execute" /\ task[u].kernel_id = task[t].kernel_id
        /\ task[u].kernel = 2 /\ jk[2].state = "started"
        /\ InKernels(kernels, task[u].kernel_id)
        /\ DictGet(kernels, task[u].kernel_id) = 2

\* C16: when shutdown_all returns, every session that was tracked or being
\* created when it was called has had its shutdown invoked, and the pool
\* tracks no session.
C16_ShutdownAllShutsEverything ==
    [][\A t \in Tasks :
          (/\ task'[t].kind = "shutdown_all"
           /\ task[t].pc # "done"
           /\ task'[t].pc = "done"
           /\ task'[t].resp = KernelShutdown) =>
              /\ kernels' = <<>>
              /\ \A k \in DOMAIN jk' :
                    jk'[k].at_shutdown_all => jk'[k].shutdown_calls >= 1]_vars

\* C20: a tool call that arrives without a session identifier (kernel_id is
\* None) is rejected with an explicit error to the caller: the service
\* answers the request with a validation error instead of running the
\* endpoint, the relay raises with that error in its message, nothing is
\* executed or translated, and the pool tracks no session for it.
C20_AbsentIdRejected ==
    (relay.pc # "idle" /\ ~relay.kernel_id.some) =>
        /\ relay.pc = "raised"
        /\ relay.response \in {NoResponse, UnprocessableEntity}
        /\ Contains(UpstreamError, relay.raised)
        /\ relay.results = <<>> /\ relay.messages = <<>>
        /\ kernels = <<>> /\ jk = <<>>

C20_Witness ==
    /\ relay.pc = "raised"
    /\ relay.kernel_id = None
    /\ relay.response = UnprocessableEntity
    /\ relay.raised = "Container service error: " \o UnprocessableEntity.error

\* ------------------------------------- claims about the environment
InHealthCheck == env.pc \in {"probe", "sleep"}

\* C17: health_check(timeout) always terminates and returns a boolean, never
\* raising on a failed probe; it returns False only once the elapsed time is
\* at least the timeout, and then no probe had succeeded; it returns True
\* only after a probe returned status 200; between a failed probe and the
\* next one it waits the 1-second interval.
C17_HealthCheckBounded ==
    /\ [](env.healthy \in {"", "True", "False"})
    /\ [](InHealthCheck => env.error = "")
    /\ [](env.healthy = "False" =>
              /\ env.returned_at - env.start_time >= env.timeout
              /\ env.last_probe # "200")
    /\ [](env.healthy = "True" => env.last_probe = "200")
    /\ []((env.pc = "probe" /\ env.last_probe # "") =>
              env.now = env.last_failed + Interval)
    /\ (InHealthCheck ~> env.healthy # "")

C17_Witness ==
    /\ env.pc = "health_done"
    /\ env.healthy = "False"
    /\ env.timeout = MaxTimeout
    /\ env.last_probe = "TimeoutError"
    /\ env.returned_at = env.start_time + ProbeTimeout + Interval

Ended(name) == {i \in DOMAIN env.commands : env.commands[i].name = name}

\* C18: start_docker_container issues the start command only after the
\* teardown of a previous instance has completed; if the start command
\* reports a non-zero return code it fails with an error and no health
\* polling is performed; if the start command succeeds, it completes
\* successfully if and only if health polling returns true; so setup never
\* finishes with an environment that did not report healthy.
C18_BringUpOrdered ==
    /\ env.pc = "up" => env.commands # <<>> /\ env.commands[1].name = "down"
    /\ \A i \in Ended("up") : i = 2 /\ env.commands[1].name = "down"
    /\ \A i \in Ended("up") :
          env.commands[i].exit # "0" =>
              /\ env.setup = "raised"
              /\ env.error = "Failed to start container"
              /\ env.healthy = "" /\ env.last_probe = ""
    /\ (env.caller = "setup" /\ env.healthy = "False") =>
          /\ env.setup = "raised"
          /\ env.error = "Container service failed to become healthy"
    /\ env.pc = "close" => env.healthy = "True"
    /\ env.setup = "returned" =>
          /\ env.healthy = "True" /\ env.last_probe = "200"
          /\ Ended("up") = {2} /\ env.commands[2].exit = "0"

C18_Witness ==
    /\ env.setup = "returned"
    /\ env.commands = <<Command("down", "1"), Command("up", "0")>>
    /\ env.healthy = "True"
    /\ env.last_failed > 0 /\ env.returned_at > env.last_failed

\* C19: best-effort teardown never propagates a failure:
\* stop_docker_container returns normally whether the stop command fails,
\* exits non-zero or cannot be launched; the client's shutdown_kernel returns
\* normally when the environment is unreachable; and in cleanup a failure of
\* one step does not prevent the later step, stopping the environment, from
\* running.
C19_TeardownNeverPropagates ==
    /\ [][\A exit \in Exits : StopDockerContainer(exit) =>
              env'.pc = "stopped" /\ env'.cleanup_error = ""]_vars
    /\ [][ClientShutdownKernel("ClientError") =>
              env'.pc = env.pc /\ env'.error = ""]_vars
    /\ [][\A raises \in BOOLEAN : Cleanup(raises) => env'.pc = "cleanup_stop"]_vars

\* ------------------------------------- claims about the session lifecycle
\* The session was started and its shutdown has not completed.
Live(k) == jk[k].state \in {"started", "closing"}

\* A get_kernel that has not returned yet holds the session it constructed.
HeldByCreator(k) ==
    \E t \in Tasks : task[t].kernel = k /\ task[t].phase = "import"
                     /\ task[t].pc \in {"execution_lock", "get_iopub_msg"}

\* Task t's get_kernel returns in this step (the caller goes on to execute).
GetKernelReturns(t) == task[t].phase # "code" /\ task'[t].phase = "code"

\* C21: under every interleaving of get_kernel and shutdown_kernel calls for
\* one identifier (no cancellation, no failing await), at most one started
\* and not yet shut down session exists for the identifier, every such
\* session is the one the pool tracks or the one its creator still holds, and
\* get_kernel never returns a session whose shutdown has begun.
C21_LifecycleRaceFree ==
    /\ [](Faults = 0 =>
            \A id \in Ids :
                /\ Cardinality({k \in KernelsFor(id) : Live(k)}) <= 1
                /\ \A k \in KernelsFor(id) :
                       Live(k) => Tracked(k) \/ HeldByCreator(k))
    /\ [][Faults = 0 =>
            \A t \in Tasks :
                GetKernelReturns(t) => jk[task'[t].kernel].shutdown_calls = 0]_vars

\* The lifecycle state of an identifier, read off the program state: its
\* session is tracked and shutting down, tracked with a caller's execute_raw
\* on it, tracked and idle, being created by a get_kernel, or absent.
Executing(k) ==
    \E t \in Tasks : task[t].kernel = k /\ task[t].phase = "code"
                     /\ task[t].pc \in {"execution_lock", "get_iopub_msg"}

Creating(id) ==
    \E t \in Tasks : task[t].kernel_id = id /\ task[t].kind = "execute"
                     /\ task[t].phase # "code"
                     /\ task[t].pc \in {"start", "execution_lock", "get_iopub_msg"}

Lifecycle(id) ==
    IF InKernels(kernels, id)
    THEN LET k == DictGet(kernels, id)
         IN  IF jk[k].state = "closing" THEN "ShuttingDown"
             ELSE IF Executing(k) THEN "Executing"
             ELSE "Ready"
    ELSE IF Creating(id) THEN "Creating" ELSE "Absent"

\* The edges of the state machine; a get_kernel that stores the session and
\* sends the caller's code without suspending passes through Ready.
Edges ==
    {<<"Absent", "Creating">>, <<"Creating", "Ready">>, <<"Creating", "Executing">>,
     <<"Ready", "Executing">>, <<"Executing", "Ready">>,
     <<"Ready", "ShuttingDown">>, <<"ShuttingDown", "Absent">>}

\* C22: every change of an identifier's lifecycle state is an edge of
\* Absent -> Creating -> Ready -> (Executing <-> Ready) -> ShuttingDown ->
\* Absent (with no cancellation and no failing await): a session enters
\* ShuttingDown only from Ready, and an identifier returns to Absent only
\* through ShuttingDown.
C22_LifecycleEdges ==
    [][Faults' = 0 =>
         \A id \in Ids :
             \/ Lifecycle(id)' = Lifecycle(id)
             \/ <<Lifecycle(id), Lifecycle(id)'>> \in Edges]_vars

\* ------------------------------------------- claims about execute_raw
\* The number of events read so far from the iopub channel of kernel k.
Consumed(k) == jk[k].published - Len(jk[k].iopub)

\* The event tells that the interpreter has returned to idle.
StatusIdle(m) == m.msg_type = "status" /\ m.execution_state = "idle"

\* msgs are events next to each other on the channel, none of them idle.
Contiguous(msgs) ==
    /\ \A i \in 1..Len(msgs) : ~StatusIdle(msgs[i])
    /\ \A i \in 1..(Len(msgs) - 1) : msgs[i + 1].n = msgs[i].n + 1

\* Task t's execute_raw reads one event in this step.
Reads(t) == \E outs \in 0..MaxOut : GetIopubMsg(t, outs)

\* C23: an execute_raw call that is neither cancelled nor failed returns
\* exactly the events it read from the channel after its code was sent, in
\* channel order with none dropped, up to and including the first idle status
\* event: the idle event is the last element returned, and the call reads
\* nothing after it.
C23_ReturnsReadsUpToIdle ==
    /\ [](\A t \in Tasks :
            task[t].pc = "get_iopub_msg" =>
                /\ task[t].sent
                /\ Contiguous(task[t].messages)
                /\ task[t].messages # <<>> =>
                       task[t].messages[Len(task[t].messages)].n = Consumed(task[t].kernel))
    /\ [][\A t \in Tasks :
            Reads(t) =>
                LET k == task[t].kernel
                    after == IF task'[t].pc = "get_iopub_msg" /\ task'[t].phase = task[t].phase
                             THEN task'[t].messages
                             ELSE task'[t].resp.messages
                    last == after[Len(after)]
                IN  /\ Consumed(k)' = Consumed(k) + 1
                    /\ \A u \in Tasks \ {t} : Collected(u)' = Collected(u)
                    /\ task'[t].pc = "get_iopub_msg" /\ task'[t].phase = task[t].phase =>
                           /\ after = Append(task[t].messages, last)
                           /\ last.n = Consumed(k)' /\ ~StatusIdle(last)
                    /\ task[t].phase = "code" /\ task'[t].pc # "get_iopub_msg" =>
                           /\ task'[t].pc = "done" /\ task'[t].resp.success
                           /\ after = Append(task[t].messages, last)
                           /\ last.n = Consumed(k)' /\ StatusIdle(last)
                    /\ task[t].phase = "import" =>
                           task'[t].phase = "import" \/ task'[t].messages = <<>>]_vars

\* A call returned busy, one output and idle, after an earlier call on the
\* same session had been cancelled before its idle event.
C23_Witness ==
    \E t \in Tasks :
        /\ Executed(t) /\ task[t].resp.success /\ task[t].cancels = 0
        /\ Len(task[t].resp.messages) >= 3
        /\ StatusIdle(task[t].resp.messages[Len(task[t].resp.messages)])
        /\ jk[task[t].kernel].unfinished

\* ------------------------------------------- claims about the preload
\* C24: for every session the preload runs exactly once, after start and
\* before the session is inserted into the pool; no caller's code is sent to
\* a session before its preload has reached its idle event; and no event of a
\* preload appears in the messages returned to a caller.
C24_PreloadCompletesFirst ==
    /\ \A k \in KernelObjs :
           /\ jk[k].preloads <= 1
           /\ jk[k].preloads = 1 => jk[k].state # "new"
           /\ Tracked(k) => jk[k].preloads = 1
    /\ \A t \in Tasks :
           task[t].phase = "code" /\ task[t].sent /\ task[t].ticket = 2
           => task[t].after = "idle"
    /\ \A t \in Tasks :
           \A i \in 1..Len(Collected(t)) :
               task[t].phase = "code" => Collected(t)[i].parent[2] # "import"

\* ------------------------------------------- claims about failed creation
\* Task t is inside get_kernel.
InGetKernel(t) ==
    /\ task[t].kind = "execute"
    /\ \/ task[t].pc \in {"kernel_lock", "start"}
       \/ task[t].phase = "import" /\ task[t].pc \in {"execution_lock", "get_iopub_msg"}

\* kernel.start() or the preload raises in task t's get_kernel.
CreationFails(t) ==
    \/ StartRaises(t)
    \/ task[t].phase = "import" /\ GetIopubMsgRaises(t)

\* Task t's get_kernel finds its identifier untracked under the lock.
FindsAbsent(t) ==
    /\ task[t].pc \in {"idle", "kernel_lock"} /\ task'[t].pc = "start"

\* C25: a failure of start or of the preload inside get_kernel(id) is fatal
\* only to the request that triggered it: the error reaches that caller, the
\* per-identifier lock is released (it passes to the first waiting caller, so
\* a per-identifier lock is only ever held by a call inside get_kernel), no
\* session is tracked for id, sessions and locks of other identifiers are
\* unaffected, a later get_kernel(id) that finds id untracked constructs a
\* new session and starts it, and a caller that has been handed the lock
\* leaves its wait.
C25_CreationFailureIsLocal ==
    /\ \A u \in Tasks :
           (task[u].pc = "kernel_lock" /\ locks[task[u].lock].holder = u)
               ~> (task[u].pc # "kernel_lock")
    /\ [](\A l \in DOMAIN locks :
            locks[l].holder # NoTask =>
                InGetKernel(locks[l].holder) /\ task[locks[l].holder].lock = l)
    /\ [][\A t \in Tasks :
            CreationFails(t) =>
                LET id == task[t].kernel_id
                    l  == task[t].lock
                IN  /\ task'[t].pc = "done" /\ ~task'[t].resp.success
                    /\ task'[t].resp.status = 200
                    /\ task'[t].resp.error \in {Traceback(StartError), Traceback(ChannelError)}
                    /\ locks'[l].holder # t
                    /\ locks[l].waiters # <<>> =>
                           /\ locks'[l].holder = Head(locks[l].waiters)
                           /\ locks'[l].waiters = Tail(locks[l].waiters)
                    /\ ~InKernels(kernels, id) /\ kernels' = kernels
                    /\ ~Tracked(task[t].kernel)'
                    /\ kernel_locks' = kernel_locks
                    /\ \A m \in DOMAIN locks : m # l => locks'[m] = locks[m]
                    /\ \A k \in KernelObjs : jk[k].id # id => jk'[k] = jk[k]
                    /\ \A u \in Tasks \ {t} : task'[u] = task[u]]_vars
    /\ [][\A t \in Tasks :
            FindsAbsent(t) =>
                /\ Len(jk') = Len(jk) + 1
                /\ task'[t].kernel = Len(jk')
                /\ jk'[Len(jk')] = NewKernel(task'[t].kernel_id)]_vars

\* The start of a session failed while another caller waited for the lock of
\* the identifier: the failed request has answered with the error, nothing is
\* tracked for the identifier, and the waiting caller has been handed the lock.
C25_Witness ==
    \E t, u \in Tasks :
        /\ t # u /\ task[t].kernel_id = task[u].kernel_id
        /\ task[t].pc = "done" /\ task[t].resp.error = Traceback(StartError)
        /\ jk[task[t].kernel].state = "failed"
        /\ ~InKernels(kernels, task[t].kernel_id)
        /\ task[u].pc = "kernel_lock" /\ locks[task[u].lock].holder = u

\* ------------------------------------- claims about the client's session
OpenSessions == {i \in DOMAIN env.sessions : env.sessions[i] = "open"}

\* A call of the client that issues its request in the step it begins.
ClientCall ==
    \/ ClientExecuteCode
    \/ \E outcome \in {"200", "500", "ClientError"} : ClientShutdownKernel(outcome)

\* health_check begins: called directly, or by start_docker_container.
HealthCheckBegins ==
    \/ \E timeout \in 0..MaxTimeout : HealthCheck(timeout)
    \/ ComposeUp("0")

\* The call goes on with the session object the client held.
Reused ==
    /\ env'.session = env.session
    /\ env'.sessions = env.sessions

\* The call has created a session object, which the client now holds.
Recreated ==
    /\ env'.sessions = Append(env.sessions, "open")
    /\ env'.session = Len(env'.sessions)

\* C26: the client holds at most one open session object at a time, the one
\* in its session field, and a call reuses it while it is open; after close()
\* the next execute_code, shutdown_kernel or health_check creates a new
\* session object; and no request is ever issued on a closed session object.
C26_OneSessionReused ==
    /\ [](/\ Cardinality(OpenSessions) <= 1
          /\ OpenSessions \subseteq {env.session}
          /\ ~env.on_closed
          /\ env.pc \in {"probe", "sleep"} =>
                 env.local = env.session /\ env.local \in OpenSessions)
    /\ [][ClientCall \/ HealthCheckBegins =>
            /\ IF env.session \in OpenSessions THEN Reused ELSE Recreated
            /\ env'.session \in OpenSessions'
            /\ ClientCall => env'.last_request = env'.session]_vars
    /\ [][(\E probe \in Probes, d \in 0..ProbeTimeout : HealthProbe(probe, d)) =>
            env'.last_request = env.session /\ Reused]_vars

\* setup created a session object for its health check and closed it; the
\* first execute_code after it created a second one, which the next call
\* reused.
C26_Witness ==
    /\ env.pc = "ready" /\ env.calls = 2
    /\ env.sessions = <<"closed", "open">>
    /\ env.session = 2 /\ env.last_request = 2
    /\ env.shutdown_kernel # ""
====
